---- MODULE Spec2Model ----
(***************************************************************************)
(* Fixed framestep stage (src/src/fixedframestep.rs).                      *)
(*                                                                         *)
(* State: the FixedFramestepStage runners (step, accumulator, paused,      *)
(* child stages), the World's FixedFramesteps resource (info map and       *)
(* current label), and the stack of fires in progress.  A child stage is   *)
(* either a user system stage, which may write a FixedFramestepInfo entry  *)
(* through the resource, or another FixedFramestepStage.                   *)
(***************************************************************************)
EXTENDS Integers, Sequences, FiniteSets, TLC

\* ------------------------------------------------------------- bounds
MaxStep == 3       \* channel "a" is registered with a framestep in 0 .. MaxStep
OtherStep == 2     \* channel "b" is registered with this framestep
MaxAcc == 3        \* a runner is not ticked past this accumulator
MaxStages == 2     \* child stages of channel "a"
MaxCalls == 4      \* counted invocations of a runner
MaxWrites == 1     \* writes made by systems

\* FrameCounter = u32.  TLC's integers are 32-bit signed, so a counter is held
\* as its 32-bit pattern: u32::MAX (0xFFFFFFFF) is -1, and 0 .. MaxAcc are
\* themselves.  Equality, += 1 and -= on these values are those of the source.
MaxCounter == -1

Names == {"a", "b"}
NoName == "None"
Sys == "sys"

VARIABLES
    runner,     \* [Names -> FixedFramestepStage fields]
    res,        \* the World holds a FixedFramesteps resource
    info,       \* FixedFramesteps.info : label -> FixedFramestepInfo
    current,    \* FixedFramesteps.current
    stack,      \* fires in progress, outermost first
    panicked,   \* the process aborted on an arithmetic overflow
    started,    \* the schedule has begun to run
    ev,         \* what the last step did (invocations decided/returned, writes)
    calls,      \* unpaused invocations of a runner since creation
    fires,      \* child-stage batches of a runner since creation
    hist,       \* "plain", "paused" (pause flag used), "written" (step/acc written)
    pauseK,     \* child stage of the own fire at which the entry was paused
    writes      \* registry writes made by code other than the runners

vars == <<runner, res, info, current, stack, panicked, started, ev, calls,
          fires, hist, pauseK, writes>>

\* ------------------------------------------------------------- data
Info(s, a, p) == [step |-> s, accumulator |-> a, paused |-> p]

EmptyMap == [x \in {} |-> Info(0, 0, FALSE)]

Insert(m, k, v) == [x \in (DOMAIN m) \cup {k} |-> IF x = k THEN v ELSE m[x]]

NoRunner ==
    [created |-> FALSE, host |-> FALSE, step |-> 0, accumulator |-> 0,
     paused |-> FALSE, stages |-> <<>>]

\* FixedFramestepStage::new
New(framestep) ==
    [created |-> TRUE, host |-> TRUE, step |-> framestep, accumulator |-> 0,
     paused |-> FALSE, stages |-> <<>>]

\* FixedFramestepStage::paused (builder)
Paused(r) == [r EXCEPT !.paused = TRUE]

\* FixedFramestepStage::add_stage / with_stage
\* add_stage, had it put the new stage in front
AddStageFront(r, stage) == [r EXCEPT !.stages = <<stage>> \o @]

AddStage(r, stage) == [r EXCEPT !.stages = Append(@, stage)]

\* FixedFramestepStage::from_stage
FromStage(framestep, stage) == AddStage(New(framestep), stage)

Local(r) == Info(r.step, r.accumulator, r.paused)

NoEv == [run |-> {}, ret |-> {}, over |-> {}, write |-> {}]

St ==
    [runner |-> runner, res |-> res, info |-> info, current |-> current,
     panicked |-> panicked, ev |-> NoEv, calls |-> calls, fires |-> fires,
     hist |-> hist, pauseK |-> pauseK, writes |-> writes]

Has(s, label) == s.res /\ label \in DOMAIN s.info

\* ------------------------------------------------------------- FixedFramesteps
\* FixedFramesteps::get
Get(label) == IF res /\ label \in DOMAIN info THEN {info[label]} ELSE {}

\* FixedFramesteps::get_current
GetCurrent == IF res /\ current # NoName THEN Get(current) ELSE {}

\* get_single, had it only refused an empty map
GetSingleNonEmpty ==
    IF ~res \/ DOMAIN info = {} THEN {}
    ELSE {info[CHOOSE k \in DOMAIN info : TRUE]}

\* FixedFramesteps::get_single: None unless info.len() = 1, else the first of
\* info.values()
GetSingle ==
    IF ~res \/ Cardinality(DOMAIN info) # 1 THEN {}
    ELSE {info[CHOOSE k \in DOMAIN info : TRUE]}

\* FixedFramesteps::get_single_mut
GetSingleMut ==
    IF ~res \/ Cardinality(DOMAIN info) # 1 THEN {}
    ELSE {info[CHOOSE k \in DOMAIN info : TRUE]}

\* FixedFramesteps::get_current_mut
GetCurrentMut == IF res /\ current # NoName THEN Get(current) ELSE {}

\* Option::expect: a panic on None, the value of Some
Expect(opt) == [panic |-> opt = {}, value |-> opt]

\* FixedFramesteps::current, current_mut, single, single_mut
Current == Expect(GetCurrent)
CurrentMut == Expect(GetCurrentMut)
Single == Expect(GetSingle)
SingleMut == Expect(GetSingleMut)

\* the order of two values of FrameCounter, each held as its bit pattern
ULt(x, y) == IF (x < 0) = (y < 0) THEN x < y ELSE y < 0

\* FixedFramestepInfo::overstep: accumulator - step on FrameCounter; the value
\* is the bit pattern of the wrapped difference
Overstep(i) ==
    [value |-> i.accumulator - i.step,
     underflow |-> ULt(i.accumulator, i.step)]

\* ------------------------------------------------------------- runner steps
\* store_fixedframestepinfo, had it always inserted a new resource
StoreFresh(s, label) ==
    [s EXCEPT !.res = TRUE,
              !.current = label,
              !.info = Insert(EmptyMap, label, Local(s.runner[label]))]

\* store_fixedframestepinfo
Store(s, label) ==
    [s EXCEPT !.res = TRUE,
              !.current = label,
              !.info = Insert(s.info, label, Local(s.runner[label]))]

\* Pull, had the check of paused been made on the runner's old flag
PullStepOnly(s, label) ==
    IF Has(s, label)
    THEN [s EXCEPT !.runner[label].step = s.info[label].step]
    ELSE s

\* Pull, had the framestep duration not been taken from the resource
PullPausedOnly(s, label) ==
    IF Has(s, label)
    THEN [s EXCEPT !.runner[label].paused = s.info[label].paused]
    ELSE s

\* Pull, had the accumulator been synced as well
PullAll(s, label) ==
    IF Has(s, label)
    THEN [s EXCEPT !.runner[label].step = s.info[label].step,
                   !.runner[label].accumulator = s.info[label].accumulator,
                   !.runner[label].paused = s.info[label].paused]
    ELSE s

\* Pull, had it read the entry current names (get_current) and not its own
PullCurrent(s, label) ==
    IF s.res /\ s.current \in DOMAIN s.info
    THEN [s EXCEPT !.runner[label].step = s.info[s.current].step,
                   !.runner[label].paused = s.info[s.current].paused]
    ELSE s

\* run: copy step and paused from the resource, not the accumulator
Pull(s, label) ==
    IF Has(s, label)
    THEN [s EXCEPT !.runner[label].step = s.info[label].step,
                   !.runner[label].paused = s.info[label].paused]
    ELSE s

\* ReRead, had it copied what Pull copies
ReReadNoAccumulator(s, label) ==
    IF Has(s, label)
    THEN [s EXCEPT !.runner[label].step = s.info[label].step,
                   !.runner[label].paused = s.info[label].paused]
    ELSE s

\* run: after a child stage, copy the info back
ReRead(s, label) ==
    IF Has(s, label)
    THEN [s EXCEPT !.runner[label].step = s.info[label].step,
                   !.runner[label].accumulator = s.info[label].accumulator,
                   !.runner[label].paused = s.info[label].paused]
    ELSE s

\* run: framesteps.current = None
ClearCurrent(s) == IF s.res THEN [s EXCEPT !.current = NoName] ELSE s

\* RunTail, had the publish of a tick without a fire been left out
RunTailNoStore(s, label, n_steps) == ClearCurrent(s)

\* run: if n_steps == 0 { store_fixedframestepinfo }
RunTail(s, label, n_steps) ==
    IF n_steps = 0 THEN Store(ClearCurrent(s), label) ELSE ClearCurrent(s)

\* self.accumulator += 1 on a u32 (release build: wraps)
Add1(x) == IF x = MaxCounter THEN 0 ELSE x + 1

\* Threshold, off by one
ThresholdOver(acc, step) == acc > step

\* if self.accumulator == self.step
Threshold(acc, step) == acc = step

\* LoopAgain, had the commented-out `while self.accumulator >= self.step` been kept
LoopWhile(acc, step) == step > 0 /\ acc >= step

\* the test is an `if`, not the commented-out `while`: no second batch
LoopAgain(acc, step) == FALSE

\* MoreStages, had a pause ended the loop
MoreStagesUnlessPaused(r, idx) == idx < Len(r.stages) /\ ~r.paused

\* for stage in self.stages.iter_mut()
MoreStages(r, idx) == idx < Len(r.stages)

\* BeginBatch, had the subtraction been left out
BeginBatchNoReset(s, label) ==
    LET s1 == [s EXCEPT !.fires[label] = IF s.hist[label] = "written" THEN 0 ELSE @ + 1,
                        !.pauseK[label] = 0]
    IN  Store(s1, label)

\* BeginBatch, had it published before the subtraction
BeginBatchStoreFirst(s, label) ==
    LET r == s.runner[label]
        s1 == Store(s, label)
    IN  [s1 EXCEPT !.runner[label].accumulator = r.accumulator - r.step,
                   !.fires[label] = IF s.hist[label] = "written" THEN 0 ELSE @ + 1,
                   !.pauseK[label] = 0]

\* self.accumulator -= self.step; store_fixedframestepinfo
BeginBatch(s, label) ==
    LET r == s.runner[label]
        s1 == [s EXCEPT !.runner[label].accumulator = r.accumulator - r.step,
                        !.fires[label] = IF s.hist[label] = "written" THEN 0 ELSE @ + 1,
                        !.pauseK[label] = 0]
    IN  Store(s1, label)

RunEv(s, label, out, before) ==
    [ch |-> label, out |-> out,
     has |-> Has(before, label),
     pre |-> IF Has(before, label) THEN before.info[label] ELSE Info(0, 0, FALSE),
     loc |-> Local(before.runner[label]),
     pk |-> before.pauseK[label]]

AddRun(s, label, out, before) ==
    [s EXCEPT !.ev.run = @ \cup {RunEv(s, label, out, before)}]

AddRet(s, label, out, f) ==
    [s EXCEPT !.ev.ret = @ \cup
        {[ch |-> label, out |-> out, ran |-> f.ran, batches |-> f.batches,
          dirty |-> f.dirty, want |-> f.want, order |-> f.order]}]

\* RunHead, had the tick been added before the pause check
RunHeadTickFirst(s, label, wrap) ==
    LET s1 == Pull(s, label)
        r1 == s1.runner[label]
        acc == Add1(r1.accumulator)
        s2 == [s1 EXCEPT !.runner[label].accumulator = acc,
                         !.calls[label] = IF s.hist[label] = "written" THEN 0 ELSE @ + 1]
    IN  IF r1.paused
        THEN [s |-> AddRun([s1 EXCEPT !.runner[label].accumulator = acc],
                           label, "paused", s),
              out |-> "paused"]
        ELSE IF r1.accumulator = MaxCounter /\ ~wrap
        THEN [s |-> AddRun([s1 EXCEPT !.panicked = TRUE], label, "panic", s),
              out |-> "panic"]
        ELSE IF Threshold(acc, r1.step)
        THEN [s |-> AddRun(BeginBatch(s2, label), label, "fire", s), out |-> "fire"]
        ELSE [s |-> AddRun(s2, label, "nofire", s), out |-> "nofire"]

\* run, from its entry to the decision: pull, pause check, accumulate, threshold
RunHead(s, label, wrap) ==
    LET s1 == Pull(s, label)
        r1 == s1.runner[label]
        acc == Add1(r1.accumulator)
        s2 == [s1 EXCEPT !.runner[label].accumulator = acc,
                         !.calls[label] = IF s.hist[label] = "written" THEN 0 ELSE @ + 1]
    IN  IF r1.paused
        THEN [s |-> AddRun(s1, label, "paused", s), out |-> "paused"]
        ELSE IF r1.accumulator = MaxCounter /\ ~wrap
        THEN [s |-> AddRun([s1 EXCEPT !.panicked = TRUE], label, "panic", s),
              out |-> "panic"]
        ELSE IF Threshold(acc, r1.step)
        THEN [s |-> AddRun(BeginBatch(s2, label), label, "fire", s), out |-> "fire"]
        ELSE [s |-> AddRun(s2, label, "nofire", s), out |-> "nofire"]

\* a fire in progress: its runner, the child stage that runs (idx), and what
\* happened in it: child stages run, batches begun, whether a system wrote the
\* runner's entry (dirty: in this fire; pending: since the last copy back),
\* the entry as last written (want) and the child stages that have returned,
\* in the order they were run (order)
Frame(label) ==
    [ch |-> label, idx |-> 1, ran |-> 0, batches |-> 1, dirty |-> FALSE,
     pending |-> FALSE, want |-> Info(0, 0, FALSE), order |-> <<>>]

NoFrame(label) == [Frame(label) EXCEPT !.idx = 0, !.batches = 0]

Top(stk) == stk[Len(stk)]
Pop(stk) == SubSeq(stk, 1, Len(stk) - 1)
SetTop(stk, f) == [stk EXCEPT ![Len(stk)] = f]

RECURSIVE StageDone(_, _), BatchDone(_, _)

\* the body of the for loop after stage.run(world) has returned
StageDone(s, stk) ==
    LET f == Top(stk)
        s1 == ReRead(s, f.ch)
        f1 == [f EXCEPT !.ran = @ + 1, !.pending = FALSE,
                        !.order = Append(@, f.idx)]
    IN  IF MoreStages(s1.runner[f.ch], f.idx)
        THEN [s |-> s1, stack |-> SetTop(stk, [f1 EXCEPT !.idx = @ + 1])]
        ELSE BatchDone(s1, SetTop(stk, f1))

\* after the for loop: n_steps += 1, clear current, return to the caller
BatchDone(s, stk) ==
    LET f == Top(stk)
        r == s.runner[f.ch]
    IN  IF LoopAgain(r.accumulator, r.step)
        THEN LET s1 == BeginBatch(s, f.ch)
                 f1 == [f EXCEPT !.idx = 1, !.batches = @ + 1]
             IN  IF r.stages = <<>>
                 THEN BatchDone(s1, SetTop(stk, f1))
                 ELSE [s |-> s1, stack |-> SetTop(stk, f1)]
        ELSE LET s1 == AddRet(RunTail(s, f.ch, 1), f.ch, "fire", f)
             IN  IF Len(stk) = 1
                 THEN [s |-> s1, stack |-> <<>>]
                 ELSE StageDone(s1, Pop(stk))

Return(s, stk) == IF stk = <<>> THEN [s |-> s, stack |-> stk] ELSE StageDone(s, stk)

\* Stage::run of a FixedFramestepStage, called by the host (stk empty) or as
\* the child stage of the fire on top of stk
Invoke(s, stk, label, wrap) ==
    LET h == RunHead(s, label, wrap)
    IN  CASE h.out = "paused" ->
                Return(AddRet(h.s, label, "paused", NoFrame(label)), stk)
          [] h.out = "panic" ->
                [s |-> h.s, stack |-> stk]
          [] h.out = "nofire" ->
                Return(AddRet(RunTail(h.s, label, 0), label, "nofire", NoFrame(label)), stk)
          [] h.out = "fire" ->
                IF h.s.runner[label].stages = <<>>
                THEN BatchDone(h.s, Append(stk, Frame(label)))
                ELSE [s |-> h.s, stack |-> Append(stk, Frame(label))]

\* run from its entry to its return when the systems of the child stages write
\* no entry: every child stage that begins is run to its return
RECURSIVE Finish(_)
Finish(n) ==
    IF n.stack = <<>> \/ n.s.panicked THEN n.s
    ELSE LET f == Top(n.stack)
             stage == n.s.runner[f.ch].stages[f.idx]
         IN  IF stage = Sys
             THEN Finish(StageDone(n.s, n.stack))
             ELSE Finish(Invoke(n.s, n.stack, stage, TRUE))

SrcRun(s, label) == Finish(Invoke(s, <<>>, label, TRUE))

\* ------------------------------------------------------------- other code
Steps == 0 .. MaxStep
\* the accumulators systems write: below, at and over small steps, and u32::MAX
Accs == {0, 1, MaxAcc - 1, MaxCounter}

\* the pub fields of FixedFramestepInfo, and pause / unpause / toggle_pause
Fields == {"step", "accumulator", "paused"}
Values(field) ==
    CASE field = "step" -> Steps
      [] field = "accumulator" -> Accs
      [] field = "paused" -> BOOLEAN

Assign(i, field, v) ==
    CASE field = "step" -> [i EXCEPT !.step = v]
      [] field = "accumulator" -> [i EXCEPT !.accumulator = v]
      [] field = "paused" -> [i EXCEPT !.paused = v]

OnStack(stk, label) == \E i \in 1 .. Len(stk) : stk[i].ch = label
IndexOf(stk, label) == CHOOSE i \in 1 .. Len(stk) : stk[i].ch = label

\* a system assigns one field of an entry it got from get_mut, get_current_mut
\* or get_single_mut
Write(s, label, field, v) ==
    LET old == s.info[label]
        cnt == field # "paused"
    IN  [s EXCEPT
            !.info[label] = Assign(old, field, v),
            !.writes = @ + 1,
            !.hist[label] = IF cnt THEN "written"
                            ELSE IF @ = "plain" THEN "paused" ELSE @,
            !.calls[label] = IF cnt THEN 0 ELSE @,
            !.fires[label] = IF cnt THEN 0 ELSE @]

\* bookkeeping of a write made while fires are in progress
WriteInFire(p, stk, label, field, v) ==
    IF OnStack(stk, label)
    THEN [p EXCEPT ![label] =
            IF field # "paused" THEN @
            ELSE IF v THEN stk[IndexOf(stk, label)].idx ELSE 0]
    ELSE IF field = "paused" /\ ~v THEN [p EXCEPT ![label] = 0] ELSE p

MarkDirty(stk, label, new) ==
    IF OnStack(stk, label)
    THEN [stk EXCEPT ![IndexOf(stk, label)].dirty = TRUE,
                     ![IndexOf(stk, label)].pending = TRUE,
                     ![IndexOf(stk, label)].want = new]
    ELSE stk

\* ------------------------------------------------------------- actions
Set(s, stk) ==
    /\ runner' = s.runner
    /\ res' = s.res
    /\ info' = s.info
    /\ current' = s.current
    /\ panicked' = s.panicked
    /\ ev' = s.ev
    /\ calls' = s.calls
    /\ fires' = s.fires
    /\ hist' = s.hist
    /\ pauseK' = s.pauseK
    /\ writes' = s.writes
    /\ stack' = stk

Setup == ~started /\ ~panicked /\ stack = <<>>

BuiltSteps == {1}
Framesteps(label) == IF label = "a" THEN Steps ELSE {OtherStep}

\* App::add_fixed_framestep{,_before_stage,_after_stage}
AppAddFixedFramestep(label, framestep) ==
    /\ Setup
    /\ framestep \in Framesteps(label)
    /\ ~runner[label].created
    /\ LET s == [St EXCEPT !.runner[label] = FromStage(framestep, Sys)]
       IN  Set(Store(s, label), stack)
    /\ UNCHANGED started

\* Schedule::add_fixed_framestep_{before,after}_stage
ScheduleAddFixedFramestep(label, framestep) ==
    /\ Setup
    /\ framestep \in Framesteps(label)
    /\ ~runner[label].created
    /\ Set([St EXCEPT !.runner[label] = FromStage(framestep, Sys)], stack)
    /\ UNCHANGED started

\* add_stage_before(.., FixedFramestepStage::new(framestep, label).paused())
AddPausedStage(label, framestep) ==
    /\ Setup
    /\ label = "a"
    /\ ~runner[label].created
    /\ Set([St EXCEPT !.runner[label] = Paused(New(framestep)),
                      !.hist[label] = "paused"], stack)
    /\ UNCHANGED started

\* add_stage_before(.., FixedFramestepStage::new(framestep, label)): a runner
\* with no child stage yet
AddBuiltStage(label, framestep) ==
    /\ Setup
    /\ label = "a"
    /\ ~runner[label].created
    /\ Set([St EXCEPT !.runner[label] = New(framestep)], stack)
    /\ UNCHANGED started

\* add_fixed_framestep_child_stage
AddChildStage(label) ==
    /\ Setup
    /\ label = "a"
    /\ runner[label].created
    /\ Len(runner[label].stages) < MaxStages
    /\ Set([St EXCEPT !.runner[label] = AddStage(@, Sys)], stack)
    /\ UNCHANGED started

\* add_fixed_framestep_custom_child_stage(parent, FixedFramestepStage::from_stage(..))
AddNestedStage(parent, label, framestep) ==
    /\ Setup
    /\ parent = "a" /\ label = "b"
    /\ runner[parent].created
    /\ ~runner[label].created
    /\ Len(runner[parent].stages) < MaxStages
    /\ Set([St EXCEPT !.runner[label] = [FromStage(framestep, Sys) EXCEPT !.host = FALSE],
                      !.runner[parent] = AddStage(@, label)], stack)
    /\ UNCHANGED started

CanTick(label) ==
    /\ calls[label] < MaxCalls
    /\ runner[label].accumulator < MaxAcc

\* the schedule runs a top-level FixedFramestepStage
Run(label) ==
    /\ ~panicked
    /\ stack = <<>>
    /\ runner[label].created /\ runner[label].host
    /\ CanTick(label)
    /\ \E wrap \in BOOLEAN :
          /\ wrap \/ runner[label].accumulator = MaxCounter
          /\ LET n == Invoke(St, stack, label, wrap) IN Set(n.s, n.stack)
    /\ started' = TRUE

InSystemStage ==
    /\ stack # <<>>
    /\ runner[Top(stack).ch].stages[Top(stack).idx] = Sys

\* the writes the systems make: MaxWrites, and one more, between invocations,
\* that unpauses a channel when no write was of a step or an accumulator
CanWrite(label, field, v) ==
    \/ writes < MaxWrites
    \/ /\ field = "paused" /\ ~v
       /\ stack = <<>>
       /\ hist[label] = "paused"
       /\ \A n \in Names : hist[n] # "written"
       /\ writes < MaxWrites + 1

\* a system writes a field of an entry: a system of the child stage that is
\* running, or one of a stage outside the fixed framesteps
SystemWrite(label, field, v) ==
    /\ ~panicked
    /\ stack = <<>> \/ InSystemStage
    /\ CanWrite(label, field, v)
    /\ res /\ label \in DOMAIN info
    /\ Assign(info[label], field, v) # info[label]
    /\ LET s == Write(St, label, field, v)
       IN  Set([s EXCEPT !.pauseK = WriteInFire(@, stack, label, field, v),
                         !.ev.write = {[ch |-> label, field |-> field]}],
               MarkDirty(stack, label, s.info[label]))
    /\ UNCHANGED started

\* a system of the child stage that is running calls get_current() and then
\* overstep() on the entry; fresh: the entry is the running channel's and no
\* system has written it since the fire published it. A subtraction that
\* underflows panics or wraps, as the build checks overflow or does not.
\* (The reads are followed in the runs in which no system has written.)
SystemOverstep ==
    /\ ~panicked
    /\ InSystemStage
    /\ writes = 0
    /\ \E i \in GetCurrent, wrap \in BOOLEAN :
          /\ wrap \/ Overstep(i).underflow
          /\ Set([St EXCEPT
                    !.panicked = ~wrap,
                    !.ev.over = {[ch |-> current,
                                  fresh |-> current = Top(stack).ch /\ ~Top(stack).dirty,
                                  info |-> i,
                                  value |-> Overstep(i).value,
                                  underflow |-> Overstep(i).underflow,
                                  out |-> IF ~wrap THEN "panic"
                                          ELSE IF Overstep(i).underflow THEN "wrap"
                                          ELSE "ok"]}],
                 stack)
    /\ UNCHANGED started

\* the child system stage of the fire on top of the stack returns
SystemStage ==
    /\ ~panicked
    /\ InSystemStage
    /\ LET n == StageDone(St, stack) IN Set(n.s, n.stack)
    /\ UNCHANGED started

\* the fire on top of the stack runs its next child stage: a nested runner
NestedStage ==
    /\ ~panicked
    /\ stack # <<>>
    /\ LET f == Top(stack)
           label == runner[f.ch].stages[f.idx]
       IN  /\ label # Sys
           /\ CanTick(label)
           /\ \E wrap \in BOOLEAN :
                 /\ wrap \/ runner[label].accumulator = MaxCounter
                 /\ LET n == Invoke(St, stack, label, wrap) IN Set(n.s, n.stack)
    /\ UNCHANGED started

Init ==
    /\ runner = [n \in Names |-> NoRunner]
    /\ res = FALSE
    /\ info = EmptyMap
    /\ current = NoName
    /\ stack = <<>>
    /\ panicked = FALSE
    /\ started = FALSE
    /\ ev = NoEv
    /\ calls = [n \in Names |-> 0]
    /\ fires = [n \in Names |-> 0]
    /\ hist = [n \in Names |-> "plain"]
    /\ pauseK = [n \in Names |-> 0]
    /\ writes = 0

Next ==
    \/ \E label \in Names, framestep \in Steps : AppAddFixedFramestep(label, framestep)
    \/ \E label \in Names, framestep \in Steps : ScheduleAddFixedFramestep(label, framestep)
    \/ \E framestep \in Steps : AddPausedStage("a", framestep)
    \/ \E framestep \in BuiltSteps : AddBuiltStage("a", framestep)
    \/ AddChildStage("a")
    \/ AddNestedStage("a", "b", OtherStep)
    \/ \E label \in Names : Run(label)
    \/ \E label \in Names, field \in Fields :
          \E v \in Values(field) : SystemWrite(label, field, v)
    \/ SystemOverstep
    \/ SystemStage
    \/ NestedStage

Spec == Init /\ [][Next]_vars

\* ------------------------------------------------------------- claims
Idle(label) == ~OnStack(stack, label)
Entry(label) == IF res /\ label \in DOMAIN info THEN info[label] ELSE Info(0, 0, FALSE)
HasEntry(label) == Get(label) # {}

\* C1: with no pausing and no write to its entry, a runner created with step
\* S > 0 that has returned from N invocations has run its child stages
\* floor(N / S) times and holds accumulator N mod S.
C1_FiresAndAccumulator ==
    \A label \in Names :
        (/\ runner[label].created
         /\ hist[label] = "plain"
         /\ runner[label].step > 0
         /\ Idle(label))
        => /\ fires[label] = calls[label] \div runner[label].step
           /\ runner[label].accumulator = calls[label] % runner[label].step

\* step 3, four invocations: one fire (on the third), accumulator 1
C1_Witness ==
    /\ hist["a"] = "plain" /\ Idle("a")
    /\ runner["a"].step = 3
    /\ calls["a"] = 4 /\ fires["a"] = 1 /\ runner["a"].accumulator = 1

\* C2 as claimed: after every invocation of run, paused ones included, get(name)
\* returns an entry equal to the runner's (step, accumulator, paused).
C2_EveryInvocationPublishes ==
    \A e \in ev.ret : HasEntry(e.ch) /\ Entry(e.ch) = Local(runner[e.ch])

\* C2 amended: after every invocation that is not paused (firing or not),
\* get(name) returns an entry equal to the runner's (step, accumulator, paused);
\* after a paused invocation an entry, if there is one, agrees with the runner
\* on step and paused.
C2_UnpausedInvocationPublishes ==
    \A e \in ev.ret :
        /\ e.out \in {"fire", "nofire"} =>
              HasEntry(e.ch) /\ Entry(e.ch) = Local(runner[e.ch])
        /\ (e.out = "paused" /\ HasEntry(e.ch)) =>
              /\ Entry(e.ch).step = runner[e.ch].step
              /\ Entry(e.ch).paused = runner[e.ch].paused

\* a tick without a fire has overwritten an entry that held another accumulator
C2_Witness ==
    \E e \in ev.ret, r \in ev.run :
        /\ e.ch = r.ch /\ e.out = "nofire"
        /\ r.has /\ r.pre.accumulator # r.loc.accumulator
        /\ Entry(e.ch) = Local(runner[e.ch])

\* C3 as claimed: get_current() returns a value only while a fire is in
\* progress (between the publish before the child stages and the clear after
\* them); in every other state it returns nothing.
C3_CurrentOnlyInFire == GetCurrent # {} => stack # <<>>

C5_PauseFromNextInvocation ==
    /\ \A e \in ev.ret :
          e.out = "fire" => e.ran = Len(runner[e.ch].stages) * e.batches
    /\ \A r \in ev.run : r.pk # 0 => r.out = "paused"

\* the invocation after a fire whose child stage k < n paused the channel
C5_Witness ==
    \E r \in ev.run :
        /\ r.pk # 0 /\ r.pk < Len(runner[r.ch].stages)
        /\ r.out = "paused"

EffPaused(label) ==
    IF HasEntry(label) THEN info[label].paused ELSE runner[label].paused

\* C6: an invocation of a channel that is paused after the pull leaves the
\* runner's accumulator, the channel's entry and the fire count as they were
\* and runs no child stage; called by the schedule, it leaves the whole
\* resource (every entry, current) as it was.
C6_PausedRunChangesNothing ==
    [][\A label \in Names :
          ((\E e \in ev'.run : e.ch = label) /\ EffPaused(label)) =>
             /\ runner'[label].accumulator = runner[label].accumulator
             /\ fires'[label] = fires[label]
             /\ ~OnStack(stack', label)
             /\ HasEntry(label) => info'[label] = info[label]
             /\ stack = <<>> =>
                   /\ info' = info /\ res' = res /\ current' = current
                   /\ stack' = stack]_vars

\* a paused invocation of a channel that had accumulated
C6_Witness ==
    \E r \in ev.run :
        /\ r.out = "paused" /\ r.has
        /\ runner[r.ch].accumulator > 0
        /\ Entry(r.ch).accumulator = runner[r.ch].accumulator

\* C7: an invocation of a channel that has an entry decides with the entry's
\* step and paused: it returns at the pause check exactly when the entry is
\* paused, and otherwise fires exactly when accumulator + 1 is the entry's step.
C7_RunUsesRegistryStepAndPaused ==
    \A r \in ev.run :
        r.has =>
           /\ r.out = "paused" <=> r.pre.paused
           /\ r.out \in {"fire", "nofire"} =>
                 (r.out = "fire" <=> Add1(r.loc.accumulator) = r.pre.step)

\* a fire at a step the entry held and the runner did not
C7_Witness ==
    \E r \in ev.run :
        /\ r.has /\ r.pre.step # r.loc.step
        /\ r.out = "fire"

\* C8: the runner's accumulator changes only in its own invocations, and an
\* unpaused invocation continues from the runner's value, whatever the entry
\* held: without a fire the runner and the entry hold the runner's old
\* accumulator + 1, with a fire both hold 0 when the child stages begin.
C8_RegistryAccumulatorIgnored ==
    /\ [](\A r \in ev.run :
            r.out \in {"fire", "nofire"} =>
               LET acc == IF r.out = "fire" THEN 0 ELSE Add1(r.loc.accumulator)
               IN  /\ runner[r.ch].accumulator = acc
                   /\ Entry(r.ch).accumulator = acc)
    /\ [][\A label \in Names :
            ((\A e \in ev'.run : e.ch # label) /\ Idle(label)) =>
               runner'[label].accumulator = runner[label].accumulator]_vars

\* a tick without a fire of a channel whose entry held another accumulator
C8_Witness ==
    \E r \in ev.run :
        /\ r.out = "nofire"
        /\ r.has /\ r.pre.accumulator # r.loc.accumulator
        /\ runner[r.ch].accumulator = Add1(r.loc.accumulator)
        /\ Entry(r.ch).accumulator = runner[r.ch].accumulator

\* C9: in a fire, what a system wrote on the channel's entry stays in the
\* entry, is in the runner's step, accumulator and paused once the child stage
\* has returned, is what the runner holds when the fire returns, and the runner
\* keeps it until its next invocation.
C9_SubPhaseWritesReachRunner ==
    /\ [](/\ \A i \in 1 .. Len(stack) :
               stack[i].dirty =>
                  /\ Entry(stack[i].ch) = stack[i].want
                  /\ ~stack[i].pending => Local(runner[stack[i].ch]) = stack[i].want
          /\ \A e \in ev.ret :
               (e.out = "fire" /\ e.dirty) =>
                  /\ Entry(e.ch) = e.want
                  /\ Local(runner[e.ch]) = e.want)
    /\ [][\A label \in Names :
            (/\ started
             /\ \A e \in ev'.run : e.ch # label
             /\ Idle(label))
            => Local(runner'[label]) = Local(runner[label])]_vars

\* a child stage has returned after a write of the entry, and another follows
C9_Witness ==
    /\ stack # <<>>
    /\ LET f == Top(stack)
       IN  /\ f.dirty /\ ~f.pending /\ f.idx > 1
           /\ runner[f.ch].stages[f.idx] = Sys
           /\ Local(runner[f.ch]) = f.want

\* C10 as claimed: whenever the accumulator, after the tick is added, has
\* reached or passed the step, the child stages are run in that invocation.
C10_FiresAtOrOverStep ==
    \A r \in ev.run :
        (r.out = "nofire" /\ runner[r.ch].step > 0) =>
           runner[r.ch].accumulator < runner[r.ch].step

\* C11 as claimed: once a runner has returned from an invocation, get(name)
\* returns its entry, whichever way the runner was built and registered
\* (paused() included): every runner that has run has its one entry.
C11_EntryAfterFirstInvocation ==
    \A e \in ev.ret : HasEntry(e.ch)

\* C12 as claimed: accumulator += 1 never overflows the counter and
\* accumulator -= step never underflows it, in any reachable state and under
\* any write of step and accumulator to the entry.
C12_NoOverflow ==
    \A r \in ev.run :
          /\ r.out # "paused" => r.loc.accumulator # MaxCounter
          /\ r.out = "fire" => Add1(r.loc.accumulator) = runner[r.ch].step

\* C13 as claimed: overstep() returns accumulator - step, and read by a child
\* stage right after the fire (before any write of the entry) the subtraction
\* does not underflow: the value is a well-defined, non-negative counter.
C13_OverstepAfterFire ==
    \A o \in ev.over :
        /\ o.value = o.info.accumulator - o.info.step
        /\ o.fresh => /\ o.out = "ok"
                      /\ ~ULt(o.info.accumulator, o.info.step)
                      /\ o.value >= 0

C15_StepPositive ==
    \A label \in Names :
        /\ runner[label].created => runner[label].step > 0
        /\ HasEntry(label) => Entry(label).step > 0

UpTo(n) == [k \in 1 .. n |-> k]

\* C16: a fire runs the child stages one at a time, in the order of
\* self.stages: the stages that have returned are 1 .. idx - 1 while stage idx
\* runs, and when the invocation returns every stage has run exactly once, in
\* that order, whatever the systems wrote on the entries; add_stage only
\* appends, so the order of self.stages is the order the stages were added in.
C16_AllStagesOnceInOrder ==
    /\ [](/\ \A e \in ev.ret :
               e.out = "fire" => e.order = UpTo(Len(runner[e.ch].stages))
          /\ \A i \in 1 .. Len(stack) :
               /\ stack[i].order = UpTo(stack[i].idx - 1)
               /\ stack[i].idx <= Len(runner[stack[i].ch].stages))
    /\ [][\A label \in Names :
            runner[label].created =>
               /\ Len(runner'[label].stages) >= Len(runner[label].stages)
               /\ SubSeq(runner'[label].stages, 1, Len(runner[label].stages))
                     = runner[label].stages]_vars

\* a fire of a runner with two child stages, the second a nested runner, has
\* returned after a system wrote the runner's entry in the first
C16_Witness ==
    \E e \in ev.ret :
        /\ e.out = "fire" /\ e.dirty
        /\ runner[e.ch].stages = <<Sys, "b">>
        /\ e.order = <<1, 2>>

\* C17: on a fire the subtraction comes first, then the publish, then the
\* child stages: when the first child stage begins, the channel has an entry
\* (made then, if there was none) that holds accumulator 0, the step the
\* invocation used and paused = FALSE, the runner holds the same, and
\* get_current() returns that entry.
C17_PublishedBeforeStages ==
    \A r \in ev.run :
        (/\ r.out = "fire"
         /\ stack # <<>>
         /\ Top(stack).ch = r.ch /\ Top(stack).idx = 1 /\ Top(stack).order = <<>>)
        => /\ HasEntry(r.ch)
           /\ Entry(r.ch) = Info(IF r.has THEN r.pre.step ELSE r.loc.step, 0, FALSE)
           /\ Local(runner[r.ch]) = Entry(r.ch)
           /\ current = r.ch
           /\ GetCurrent = {Entry(r.ch)}

\* a first fire of a channel that had no entry, beside another channel's entry
C17_Witness ==
    \E r \in ev.run :
        /\ r.out = "fire" /\ ~r.has /\ r.loc.step > 0
        /\ stack # <<>> /\ Top(stack).ch = r.ch /\ Top(stack).order = <<>>
        /\ res /\ DOMAIN info = Names
        /\ Entry(r.ch) = Info(r.loc.step, 0, FALSE)
        /\ current = r.ch

\* C18 as claimed: from the publish of a fire to its clear, get_current()
\* returns the entry of the channel that fires: a system of any of its child
\* stages gets that entry, also when other channels have entries and when
\* another child stage of the fire is the runner of another channel.
C18_CurrentIsFiringChannel ==
    InSystemStage =>
       /\ current = Top(stack).ch
       /\ GetCurrent = {Entry(Top(stack).ch)}

\* C20: no step removes an entry or the resource: once get(name) returns an
\* entry it returns one in every later state, so the set of names that have
\* an entry only grows.
C20_EntriesNeverRemoved ==
    [][/\ res => res'
       /\ res => DOMAIN info \subseteq DOMAIN info'
       /\ \A label \in Names : HasEntry(label) => (res' /\ label \in DOMAIN info')]_vars

\* both channels have an entry and have run since they got it
C20_Witness ==
    /\ res /\ DOMAIN info = Names
    /\ \A label \in Names : calls[label] > 0
    /\ ev.ret # {}

\* the run the claim C19 proposes: the pull, the pause check, the tick, the
\* threshold, the subtraction, the child stages and the copy back after each
\* are those of run; the two publishes are replaced by one publish of the
\* runner's step, accumulator and paused at the end of every invocation that
\* passes the pause check (read in the claim's favour: an invocation that
\* returns at the pause check publishes nothing, as in run)
RECURSIVE UniRun(_, _), UniStages(_, _, _)
UniStages(s, label, idx) ==
    IF idx > Len(s.runner[label].stages) THEN s
    ELSE LET stage == s.runner[label].stages[idx]
             s1 == IF stage = Sys THEN s ELSE UniRun(s, stage)
         IN  UniStages(ReRead(s1, label), label, idx + 1)
UniRun(s, label) ==
    LET s1 == Pull(s, label)
        r1 == s1.runner[label]
        acc == Add1(r1.accumulator)
        s2 == [s1 EXCEPT !.runner[label].accumulator = acc]
        s3 == [s2 EXCEPT !.runner[label].accumulator = acc - r1.step,
                         !.current = label]
    IN  IF r1.paused
        THEN AddRun(s1, label, "paused", s)
        ELSE IF Threshold(acc, r1.step)
        THEN Store(ClearCurrent(UniStages(AddRun(s3, label, "fire", s), label, 1)), label)
        ELSE Store(ClearCurrent(AddRun(s2, label, "nofire", s)), label)

\* what C19 compares: every runner's step, accumulator and paused, the entries
\* of the registry, and the channels that fired
Obs(s) ==
    [runner |-> [n \in Names |-> Local(s.runner[n])],
     res |-> s.res,
     info |-> s.info,
     fired |-> {r.ch : r \in {x \in s.ev.run : x.out = "fire"}}]

Ready(label) ==
    /\ ~panicked /\ stack = <<>>
    /\ runner[label].created /\ runner[label].host

Outcome(s, label) == {r.out : r \in {x \in s.ev.run : x.ch = label}}

\* C19 as claimed: from every state, an invocation of run and an invocation of
\* the run that publishes once at its end leave the same runner state, the
\* same entries and the same fires.
C19_PublishAtEndEquivalent ==
    \A label \in Names :
        Ready(label) => Obs(SrcRun(St, label)) = Obs(UniRun(St, label))

\* C19 amended: the two leave the same runner state, entries and fires after
\* every unpaused invocation that runs no child stage (a tick without a fire,
\* or a fire of a runner that has no child stage); after a fire with a child
\* stage of a channel whose entry held an accumulator other than 0 they differ.
C19_EquivalentWithoutChildStages ==
    \A label \in Names :
        Ready(label) =>
           LET src == SrcRun(St, label)
               uni == UniRun(St, label)
               out == Outcome(src, label)
               stages == runner[label].stages
           IN  /\ (out = {"nofire"} \/ (out = {"fire"} /\ stages = <<>>)) =>
                     Obs(src) = Obs(uni)
               /\ (/\ out = {"fire"} /\ stages # <<>>
                   /\ HasEntry(label) /\ Entry(label).accumulator # 0) =>
                     Obs(src) # Obs(uni)

\* a channel has run, its entry holds another accumulator than the runner, and
\* its next invocation, a tick without a fire, ends the same in both
C19_Witness ==
    /\ Ready("a") /\ started
    /\ HasEntry("a") /\ Entry("a").accumulator # runner["a"].accumulator
    /\ Outcome(SrcRun(St, "a"), "a") = {"nofire"}
    /\ Obs(SrcRun(St, "a")) = Obs(UniRun(St, "a"))
    /\ Obs(SrcRun(St, "a")).info # info

\* C21 as claimed: outside every invocation of a runner get_current() and
\* get_current_mut() return nothing and current() and current_mut() panic;
\* and current, current_mut, single and single_mut panic exactly when
\* get_current, get_current_mut, get_single and get_single_mut return nothing,
\* and return the same entry otherwise.
C21_AbsentOutsideInvocation ==
    /\ stack = <<>> =>
          /\ GetCurrent = {} /\ GetCurrentMut = {}
          /\ Current.panic /\ CurrentMut.panic
    /\ (Current.panic <=> GetCurrent = {}) /\ Current.value = GetCurrent
    /\ (CurrentMut.panic <=> GetCurrentMut = {}) /\ CurrentMut.value = GetCurrentMut
    /\ (Single.panic <=> GetSingle = {}) /\ Single.value = GetSingle
    /\ (SingleMut.panic <=> GetSingleMut = {}) /\ SingleMut.value = GetSingleMut

\* one of the next n invocations of the channel fires (no system writes)
RECURSIVE FiresWithin(_, _, _)
FiresWithin(s, label, n) ==
    IF n = 0 THEN FALSE
    ELSE LET s1 == SrcRun([s EXCEPT !.ev = NoEv], label)
         IN  "fire" \in Outcome(s1, label) \/ FiresWithin(s1, label, n - 1)

\* C22 as claimed: when a system has set the step of an unpaused channel's
\* entry to S' > 0 (in a fire or between invocations) or its accumulator to
\* any value (in a fire of the channel), the channel fires in one of its next
\* S' invocations after the fires in progress have returned. (Stated for
\* channels whose runner holds a step > 0 when the write is made.)
C22_FiresAgainAfterChange ==
    \A w \in ev.write :
        LET s0 == Finish([s |-> St, stack |-> stack])
        IN  (/\ ~panicked
             /\ runner[w.ch].host /\ runner[w.ch].step > 0
             /\ w.field = "step" \/ (w.field = "accumulator" /\ OnStack(stack, w.ch))
             /\ s0.info[w.ch].step > 0
             /\ ~s0.info[w.ch].paused)
            => FiresWithin(s0, w.ch, s0.info[w.ch].step)

\* C23: for a channel with step S > 0 whose entry had no write but of paused,
\* a paused invocation leaves the runner's accumulator as it was, and after U
\* unpaused invocations (calls), with any paused ones among them, the channel
\* has fired floor(U / S) times and the runner holds accumulator U mod S.
C23_PausePreservesProgress ==
    /\ \A r \in ev.run :
          (r.out = "paused" /\ hist[r.ch] # "written") =>
             runner[r.ch].accumulator = r.loc.accumulator
    /\ \A label \in Names :
          (/\ runner[label].created
           /\ hist[label] # "written"
           /\ runner[label].step > 0
           /\ Idle(label))
          => /\ fires[label] = calls[label] \div runner[label].step
             /\ runner[label].accumulator = calls[label] % runner[label].step

\* a paused invocation of a channel that had ticked once
C23_WitnessPaused ==
    \E r \in ev.run :
        /\ r.out = "paused" /\ hist[r.ch] = "paused" /\ r.has
        /\ r.loc.accumulator = 1 /\ runner[r.ch].accumulator = 1

\* a channel with step 2 fires on its second unpaused invocation, made after
\* it was paused and unpaused
C23_Witness ==
    \E r \in ev.run :
        /\ r.out = "fire" /\ r.ch = "a" /\ r.has
        /\ hist["a"] = "paused" /\ writes = 2
        /\ r.loc.accumulator = 1 /\ r.pre.step = 2
        /\ calls["a"] = 2 /\ fires["a"] = 1

\* C24: what an invocation of a channel does is decided by the channel's own
\* runner and entry (paused and step from its entry if it has one, from its
\* runner otherwise; the accumulator from its runner), whatever the other
\* channels hold; and a step of a runner leaves alone the runner, the entry
\* and the fire count of every channel that it does not invoke and that has
\* no fire in progress. So every interleaving gives each channel the fires
\* and the accumulator it has when invoked alone.
C24_ChannelsIndependent ==
    /\ [](\A r \in ev.run :
            LET step == IF r.has THEN r.pre.step ELSE r.loc.step
                paused == IF r.has THEN r.pre.paused ELSE r.loc.paused
                acc == Add1(r.loc.accumulator)
            IN  /\ r.out = "paused" <=> paused
                /\ r.out = "fire" =>
                      /\ acc = step
                      /\ Local(runner[r.ch]) = Info(step, 0, FALSE)
                      /\ Entry(r.ch) = Info(step, 0, FALSE)
                /\ r.out = "nofire" =>
                      /\ acc # step
                      /\ Local(runner[r.ch]) = Info(step, acc, FALSE)
                      /\ Entry(r.ch) = Info(step, acc, FALSE))
    /\ [][\A label \in Names :
            (/\ started
             /\ \A e \in ev'.run : e.ch # label
             /\ \A w \in ev'.write : w.ch # label
             /\ Idle(label))
            => /\ Get(label)' = Get(label)
               /\ Local(runner'[label]) = Local(runner[label])
               /\ fires'[label] = fires[label]]_vars

\* both channels have run and have entries with different steps; "b" has just
\* ticked without a fire beside "a", which is about to fire
C24_Witness ==
    /\ Ready("a") /\ Ready("b") /\ started
    /\ calls["a"] > 0 /\ calls["b"] > 0
    /\ HasEntry("a") /\ HasEntry("b") /\ Entry("a").step # Entry("b").step
    /\ \E r \in ev.run : r.ch = "b" /\ r.out = "nofire" /\ r.has
    /\ runner["a"].accumulator = 2 /\ runner["a"].step = 3

\* C25: for a channel created with step S > 0 whose entry no system has
\* written, in every state, between and during invocations, the runner holds
\* 0 <= accumulator < step and so does the entry, if there is one.
C25_AccumulatorBelowStep ==
    \A label \in Names :
        (/\ runner[label].created
         /\ hist[label] = "plain"
         /\ runner[label].step > 0)
        => /\ runner[label].accumulator >= 0
           /\ ULt(runner[label].accumulator, runner[label].step)
           /\ HasEntry(label) =>
                 /\ Entry(label).accumulator >= 0
                 /\ ULt(Entry(label).accumulator, Entry(label).step)

\* a channel with step 3 in its first fire, the other channel between ticks
C25_Witness ==
    /\ hist["a"] = "plain" /\ hist["b"] = "plain"
    /\ OnStack(stack, "a") /\ runner["a"].step = 3 /\ fires["a"] = 1
    /\ Entry("a") = Info(3, 0, FALSE)
    /\ HasEntry("b") /\ Entry("b").accumulator = 1
====
